---- MODULE Spec2Model ----
(***************************************************************************)
(* Model of the settlement calculator of src/app.py: the date helpers      *)
(* (parse_date, days_inclusive, add_months), the float helper parse_float  *)
(* and the core function calculate.                                        *)
(*                                                                         *)
(* Dates are records [year, month, day]; Python's None is the record None. *)
(* Floats are IEEE 754 binary64 values, computed bit for bit; Python       *)
(* integers are of any size.                                               *)
(* A raised exception is a value whose field status names the exception.   *)
(***************************************************************************)
EXTENDS Integers, Sequences, FiniteSets, TLC

\* ---------------------------------------------------------------------
\* Program constants
\* ---------------------------------------------------------------------
MINYEAR == 1

MAXYEAR == 9999

\* ---------------------------------------------------------------------
\* datetime.date
\* ---------------------------------------------------------------------
None == [year |-> 0, month |-> 0, day |-> 0]

Date(y, m, d) == [year |-> y, month |-> m, day |-> d]

\* the leap-year rule written out in add_months
IsLeap(y) == y % 4 = 0 /\ (y % 100 /= 0 \/ y % 400 = 0)

\* the month-length table written out in add_months
MonthLengths(y) ==
    << 31, IF IsLeap(y) THEN 29 ELSE 28, 31, 30, 31, 30, 31, 31, 30, 31, 30, 31 >>

\* date(y, m, d) accepts exactly the dates of the proleptic Gregorian
\* calendar with MINYEAR <= y <= MAXYEAR and raises ValueError otherwise
ValidDate(y, m, d) ==
    /\ y >= MINYEAR /\ y <= MAXYEAR
    /\ m >= 1 /\ m <= 12
    /\ d >= 1 /\ d <= MonthLengths(y)[m]

\* date comparison: d1 < d2, d1 <= d2, max(d1, d2)
DateLt(a, b) ==
    \/ a.year < b.year
    \/ a.year = b.year /\ a.month < b.month
    \/ a.year = b.year /\ a.month = b.month /\ a.day < b.day

DateLe(a, b) == a = b \/ DateLt(a, b)

\* Python's max returns its first argument unless a later one is greater
DateMax(a, b) == IF DateLt(a, b) THEN b ELSE a

\* number of days before January 1st of year y
DaysBeforeYear(y) ==
    LET p == y - 1 IN p * 365 + (p \div 4) - (p \div 100) + (p \div 400)

RECURSIVE DaysBeforeMonth(_, _)
DaysBeforeMonth(y, m) ==
    IF m <= 1 THEN 0 ELSE DaysBeforeMonth(y, m - 1) + MonthLengths(y)[m - 1]

\* date.toordinal(); (end - start).days is the difference of the ordinals
toordinal(d) == DaysBeforeYear(d.year) + DaysBeforeMonth(d.year, d.month) + d.day

\* ---------------------------------------------------------------------
\* float: IEEE 754 binary64, round to nearest, ties to even.
\*
\* A finite float is sign s (1 for negative), significand m and exponent
\* e, with value (-1)^s * m * 2^e.  The significand is a natural number
\* below 2^53 written as a sequence of limbs in base 2^13, least
\* significant limb first, without leading zero limbs; zero is << >>.
\* Normal numbers have a 53-bit m and -1074 <= e <= 971, subnormal
\* numbers have e = -1074 and a shorter m, zero has e = 0.
\* ---------------------------------------------------------------------
LIMB_BITS == 13

BASE == 8192

MANT_BITS == 53

MIN_EXP == -1074

MAX_EXP == 971

Max(a, b) == IF a >= b THEN a ELSE b

Min(a, b) == IF a <= b THEN a ELSE b

Abs(x) == IF x < 0 THEN -x ELSE x

\* --- natural numbers of any size, as limb sequences ---
RECURSIVE BNorm(_)
BNorm(a) ==
    IF a = << >> THEN a
    ELSE IF a[Len(a)] = 0 THEN BNorm(SubSeq(a, 1, Len(a) - 1))
    ELSE a

RECURSIVE BFromInt(_)
BFromInt(n) == IF n = 0 THEN << >> ELSE << n % BASE >> \o BFromInt(n \div BASE)

RECURSIVE BToInt(_)
BToInt(a) == IF a = << >> THEN 0 ELSE a[1] + BASE * BToInt(Tail(a))

RECURSIVE SmallBitLen(_)
SmallBitLen(n) == IF n = 0 THEN 0 ELSE 1 + SmallBitLen(n \div 2)

BitLen(a) ==
    IF a = << >> THEN 0 ELSE LIMB_BITS * (Len(a) - 1) + SmallBitLen(a[Len(a)])

Limb(a, i) == IF i <= Len(a) THEN a[i] ELSE 0

RECURSIVE BCmpFrom(_, _, _)
BCmpFrom(a, b, i) ==
    IF i = 0 THEN 0
    ELSE IF Limb(a, i) > Limb(b, i) THEN 1
    ELSE IF Limb(a, i) < Limb(b, i) THEN -1
    ELSE BCmpFrom(a, b, i - 1)

\* -1, 0 or 1 as a < b, a = b, a > b
BCmp(a, b) == BCmpFrom(a, b, Max(Len(a), Len(b)))

RECURSIVE BAddFrom(_, _, _, _)
BAddFrom(a, b, i, c) ==
    IF i > Len(a) /\ i > Len(b) THEN (IF c = 0 THEN << >> ELSE << c >>)
    ELSE LET t == Limb(a, i) + Limb(b, i) + c
         IN  << t % BASE >> \o BAddFrom(a, b, i + 1, t \div BASE)

BAdd(a, b) == BAddFrom(a, b, 1, 0)

RECURSIVE BSubFrom(_, _, _, _)
BSubFrom(a, b, i, c) ==
    IF i > Len(a) THEN << >>
    ELSE LET t == a[i] - Limb(b, i) - c
         IN  << t % BASE >> \o BSubFrom(a, b, i + 1, IF t < 0 THEN 1 ELSE 0)

\* a - b for a >= b
BSub(a, b) == BNorm(BSubFrom(a, b, 1, 0))

RECURSIVE BMulSmallFrom(_, _, _, _)
BMulSmallFrom(a, s, i, c) ==
    IF i > Len(a) THEN (IF c = 0 THEN << >> ELSE BFromInt(c))
    ELSE LET t == a[i] * s + c
         IN  << t % BASE >> \o BMulSmallFrom(a, s, i + 1, t \div BASE)

\* a * s for a small natural s
BMulSmall(a, s) == BNorm(BMulSmallFrom(a, s, 1, 0))

\* a * BASE^k
BShiftLimbs(a, k) == IF a = << >> THEN a ELSE [i \in 1..k |-> 0] \o a

RECURSIVE BMulFrom(_, _, _)
BMulFrom(a, b, i) ==
    IF i > Len(b) THEN << >>
    ELSE BAdd(BShiftLimbs(BMulSmall(a, b[i]), i - 1), BMulFrom(a, b, i + 1))

BMul(a, b) == BMulFrom(a, b, 1)

\* a * 2^k
BShl(a, k) == BShiftLimbs(BMulSmall(a, 2 ^ (k % LIMB_BITS)), k \div LIMB_BITS)

RECURSIVE BDivSmallFrom(_, _, _, _)
BDivSmallFrom(a, d, i, r) ==
    IF i = 0 THEN [q |-> << >>, r |-> r]
    ELSE LET t == r * BASE + a[i]
             rest == BDivSmallFrom(a, d, i - 1, t % d)
         IN  [q |-> rest.q \o << t \div d >>, r |-> rest.r]

\* the quotient without leading zero limbs, the small remainder as limbs
BSmallQuotRem(x) == [q |-> BNorm(x.q), r |-> BFromInt(x.r)]

\* quotient and remainder of a by a small natural d > 0
BDivSmall(a, d) == BSmallQuotRem(BDivSmallFrom(a, d, Len(a), 0))

\* bit j of a, bit 0 being the least significant
Bit(a, j) == (Limb(a, (j \div LIMB_BITS) + 1) \div (2 ^ (j % LIMB_BITS))) % 2

\* the largest digit d, built from acc by the bits from bit down, with
\* d * b <= r
RECURSIVE BDigit(_, _, _, _)
BDigit(r, b, bit, acc) ==
    IF bit < 0 THEN acc
    ELSE IF BCmp(BMulSmall(b, acc + 2 ^ bit), r) <= 0
         THEN BDigit(r, b, bit - 1, acc + 2 ^ bit)
         ELSE BDigit(r, b, bit - 1, acc)

\* long division of the limbs a[1..i] by b, r being the remainder of the
\* limbs above them
\* the quotient x.q of the lower limbs with the digit d above it
BAppendDigit(x, d) == [q |-> x.q \o << d >>, r |-> x.r]

RECURSIVE BDivBigFrom(_, _, _, _)
\* one step of the division: t is the running remainder with the next limb
\* brought down, d the digit of the quotient it gives
BDivBigStep(a, b, i, t, d) ==
    BAppendDigit(BDivBigFrom(a, b, i - 1, BSub(t, BMulSmall(b, d))), d)

BDivBigDown(a, b, i, t) == BDivBigStep(a, b, i, t, BDigit(t, b, LIMB_BITS - 1, 0))

BDivBigFrom(a, b, i, r) ==
    IF i = 0 THEN [q |-> << >>, r |-> r]
    ELSE BDivBigDown(a, b, i, BNorm(<< a[i] >> \o r))

\* the quotient without leading zero limbs
BQuotRem(x) == [q |-> BNorm(x.q), r |-> x.r]

\* quotient and remainder of a by b > 0
BDivMod(a, b) ==
    IF BitLen(b) <= 17 THEN BDivSmall(a, BToInt(b))
    ELSE BQuotRem(BDivBigFrom(a, b, Len(a), << >>))

\* floor(a / 2^k)
BShr(a, k) ==
    IF k \div LIMB_BITS >= Len(a) THEN << >>
    ELSE BDivSmall(SubSeq(a, (k \div LIMB_BITS) + 1, Len(a)), 2 ^ (k % LIMB_BITS)).q

\* some bit of a below bit k is 1
LowBitsSet(a, k) ==
    \/ \E i \in 1..Min(Len(a), k \div LIMB_BITS) : a[i] /= 0
    \/ Limb(a, (k \div LIMB_BITS) + 1) % (2 ^ (k % LIMB_BITS)) /= 0

RECURSIVE TrailingZeros(_)
TrailingZeros(a) ==
    IF a[1] = 0 THEN LIMB_BITS + TrailingZeros(Tail(a))
    ELSE IF a[1] % 2 = 1 THEN 0
    ELSE 1 + TrailingZeros(<< a[1] \div 2 >>)

\* --- floats ---
FZero(s) == [k |-> "fin", s |-> s, m |-> << >>, e |-> 0]

FInf(s) == [k |-> "inf", s |-> s, m |-> << >>, e |-> 0]

Inf == FInf(0)

NegInf == FInf(1)

NaN == [k |-> "nan", s |-> 0, m |-> << >>, e |-> 0]

Finite(x) == x.k = "fin"

IsZero(x) == x.k = "fin" /\ x.m = << >>

\* the float with significand m (not zero) and exponent e, or the
\* infinity when it is beyond the largest float
Pack(s, m, e) ==
    IF e + BitLen(m) > MAX_EXP + MANT_BITS THEN FInf(s)
    ELSE [k |-> "fin", s |-> s, m |-> m, e |-> e]

\* q is a rounded significand of at most MANT_BITS + 1 bits
Renorm(s, q, e) ==
    IF q = << >> THEN FZero(s)
    ELSE IF BitLen(q) > MANT_BITS THEN Pack(s, BShr(q, 1), e + 1)
    ELSE Pack(s, q, e)

\* the significand q0, one more when up
RoundUp(s, q0, up, e) == Renorm(s, IF up THEN BAdd(q0, << 1 >>) ELSE q0, e)

\* Round dropping the sh lowest bits of M: up when they are more than half
\* a unit of the kept bits, or exactly half with an odd kept significand
RoundAt(s, M, E, sticky, sh) ==
    IF sh <= 0 THEN Pack(s, BShl(M, -sh), E + sh)
    ELSE RoundUp(s, BShr(M, sh),
                 /\ Bit(M, sh - 1) = 1
                 /\ (LowBitsSet(M, sh - 1) \/ sticky \/ Bit(M, sh) = 1),
                 E + sh)

\* the float nearest to (-1)^s * (M + f) * 2^E, where 0 <= f < 1 and
\* sticky says that f > 0; ties go to the even significand.  With sticky
\* set M has at least MANT_BITS + 2 bits.
Round(s, M, E, sticky) ==
    IF M = << >> THEN FZero(s)
    ELSE RoundAt(s, M, E, sticky, Max(BitLen(M) - MANT_BITS, MIN_EXP - E))

\* the float of magnitude m * 2^e for a small natural m > 0, when that
\* is a normal number
Exact(s, m, e) ==
    [k |-> "fin", s |-> s,
     m |-> BShl(BFromInt(m), MANT_BITS - SmallBitLen(m)),
     e |-> e - (MANT_BITS - SmallBitLen(m))]

\* float(i) of a small integer i
F(i) == IF i = 0 THEN FZero(0) ELSE Exact(IF i < 0 THEN 1 ELSE 0, Abs(i), 0)

\* the normal float n * 2^e for a small integer n other than 0
Dyadic(n, e) == Exact(IF n < 0 THEN 1 ELSE 0, Abs(n), e)

\* the float with sign s whose magnitude is the number of limbs m times 2^e
Float(s, m, e) == Round(s, m, e, FALSE)

\* -x
FNeg(x) == IF x.k = "nan" THEN x ELSE [x EXCEPT !.s = 1 - x.s]

\* -1, 0 or 1 as |x| < |y|, |x| = |y|, |x| > |y|, for x and y not nan
MagCmp(x, y) ==
    IF x.k = "inf" \/ y.k = "inf"
    THEN (IF x.k = y.k THEN 0 ELSE IF x.k = "inf" THEN 1 ELSE -1)
    ELSE IF x.m = << >> \/ y.m = << >>
    THEN (IF x.m = y.m THEN 0 ELSE IF y.m = << >> THEN 1 ELSE -1)
    ELSE IF x.e /= y.e THEN (IF x.e > y.e THEN 1 ELSE -1)
    ELSE BCmp(x.m, y.m)

\* the sum of two signed magnitudes, c comparing them; equal magnitudes
\* of opposite signs give +0
AddMagnitudes(sx, mx, sy, my, e, c) ==
    Round(IF sx = sy \/ c > 0 THEN sx ELSE IF c = 0 THEN 0 ELSE sy,
          IF sx = sy THEN BAdd(mx, my) ELSE IF c > 0 THEN BSub(mx, my) ELSE BSub(my, mx),
          e, FALSE)

\* (-1)^sx * mx * 2^e + (-1)^sy * my * 2^e
AddAligned(sx, mx, sy, my, e) == AddMagnitudes(sx, mx, sy, my, e, BCmp(mx, my))

\* x + y
FAdd(x, y) ==
    IF x.k = "nan" \/ y.k = "nan" THEN NaN
    ELSE IF x.k = "inf" /\ y.k = "inf" THEN (IF x.s = y.s THEN x ELSE NaN)
    ELSE IF x.k = "inf" THEN x
    ELSE IF y.k = "inf" THEN y
    ELSE IF IsZero(x) /\ IsZero(y) THEN FZero(IF x.s = 1 /\ y.s = 1 THEN 1 ELSE 0)
    ELSE IF IsZero(x) THEN y
    ELSE IF IsZero(y) THEN x
    ELSE IF x.e - y.e > 64 THEN x
    ELSE IF y.e - x.e > 64 THEN y
    ELSE AddAligned(x.s, BShl(x.m, x.e - Min(x.e, y.e)),
                    y.s, BShl(y.m, y.e - Min(x.e, y.e)), Min(x.e, y.e))

\* x - y
FSub(x, y) == FAdd(x, FNeg(y))

\* x * y
FMul(x, y) ==
    LET s == (x.s + y.s) % 2 IN
    IF x.k = "nan" \/ y.k = "nan" THEN NaN
    ELSE IF x.k = "inf" \/ y.k = "inf"
         THEN (IF IsZero(x) \/ IsZero(y) THEN NaN ELSE FInf(s))
    ELSE IF IsZero(x) \/ IsZero(y) THEN FZero(s)
    ELSE Round(s, BMul(x.m, y.m), x.e + y.e, FALSE)

\* the quotient d.q with remainder d.r, times 2^e
RoundQuotient(s, d, e) == Round(s, d.q, e, d.r /= << >>)

\* xm * 2^e / odd with xm scaled by 2^k
DivScaled(s, xm, odd, e, k) == RoundQuotient(s, BDivMod(BShl(xm, k), odd), e - k)

\* xm * 2^e / odd: xm is scaled to give a quotient of at least
\* MANT_BITS + 2 bits
DivByOdd(s, xm, odd, e) ==
    DivScaled(s, xm, odd, e, Max(0, MANT_BITS + 2 + BitLen(odd) - BitLen(xm)))

\* x / y; a zero divisor raises ZeroDivisionError
FDiv(x, y) ==
    LET s == (x.s + y.s) % 2 IN
    IF IsZero(y) THEN [status |-> "ZeroDivisionError"]
    ELSE IF x.k = "nan" \/ y.k = "nan" THEN NaN
    ELSE IF x.k = "inf" THEN (IF y.k = "inf" THEN NaN ELSE FInf(s))
    ELSE IF y.k = "inf" THEN FZero(s)
    ELSE IF IsZero(x) THEN FZero(s)
    ELSE DivByOdd(s, x.m, BShr(y.m, TrailingZeros(y.m)), x.e - y.e - TrailingZeros(y.m))

\* x < y, x >= y, x == y (every comparison with nan is False)
FLt(x, y) ==
    /\ x.k /= "nan" /\ y.k /= "nan"
    /\ ~(IsZero(x) /\ IsZero(y))
    /\ IF x.s /= y.s THEN x.s = 1
       ELSE IF x.s = 0 THEN MagCmp(x, y) < 0
       ELSE MagCmp(x, y) > 0

FGe(x, y) == x.k /= "nan" /\ y.k /= "nan" /\ ~FLt(x, y)

FEq(x, y) == x.k /= "nan" /\ y.k /= "nan" /\ ~FLt(x, y) /\ ~FLt(y, x)

\* the literal 365.25
DAYS_PER_YEAR == Dyadic(1461, -2)

\* ---------------------------------------------------------------------
\* Exceptions
\* ---------------------------------------------------------------------
Raised(e) == [status |-> e]

IsRaised(x) == "status" \in DOMAIN x /\ x.status /= "ok"

\* int(x) raises OverflowError for an infinity and ValueError for nan
int_raises(x) ==
    IF x.k = "inf" THEN "OverflowError"
    ELSE IF x.k = "nan" THEN "ValueError"
    ELSE "ok"

\* ---------------------------------------------------------------------
\* int: Python integers have any size; sign s (1 for negative) and
\* magnitude m
\* ---------------------------------------------------------------------
PyInt(n) == [s |-> IF n < 0 THEN 1 ELSE 0, m |-> BFromInt(Abs(n))]

\* the integer of sign s and magnitude m; zero has sign 0
Signed(s, m) == [s |-> IF m = << >> THEN 0 ELSE s, m |-> m]

\* the value of a Python integer below 2^31 in magnitude
IntOf(a) == IF a.s = 1 THEN -BToInt(a.m) ELSE BToInt(a.m)

\* a + b
IAdd(a, b) ==
    IF a.s = b.s THEN [s |-> a.s, m |-> BAdd(a.m, b.m)]
    ELSE IF BCmp(a.m, b.m) = 0 THEN [s |-> 0, m |-> << >>]
    ELSE IF BCmp(a.m, b.m) > 0 THEN [s |-> a.s, m |-> BSub(a.m, b.m)]
    ELSE [s |-> b.s, m |-> BSub(b.m, a.m)]

\* a // d and a % d for a small d > 0: Python rounds the quotient down
FloorQuotient(s, x) ==
    IF s = 0 \/ x.r = << >> THEN Signed(s, x.q) ELSE [s |-> 1, m |-> BAdd(x.q, << 1 >>)]

IFloorDiv(a, d) == FloorQuotient(a.s, BDivSmall(a.m, d))

FloorRemainder(s, r, d) == IF s = 0 \/ r = 0 THEN r ELSE d - r

IMod(a, d) == FloorRemainder(a.s, BToInt(BDivSmall(a.m, d).r), d)

\* the integer fits a C int, as the arguments of date(...) must
FitsCInt(a) ==
    \/ BitLen(a.m) <= 31
    \/ a.s = 1 /\ a.m = BShl(<< 1 >>, 31)

\* float(a): the conversion Python makes when an int meets a float
FromInt(a) == Round(a.s, a.m, 0, FALSE)

\* int(x) of a finite float: truncation toward zero
int(x) == Signed(x.s, IF x.e >= 0 THEN BShl(x.m, x.e) ELSE BShr(x.m, -x.e))

\* ---------------------------------------------------------------------
\* Raw form values.  A date text is the list of integers between its "-"
\* separators (a text that does not split into integers has kind "bad");
\* a number text is the float it denotes.
\* ---------------------------------------------------------------------
Absent == [k |-> "absent", parts |-> << >>, v |-> NaN]

Blank == [k |-> "blank", parts |-> << >>, v |-> NaN]

Bad == [k |-> "bad", parts |-> << >>, v |-> NaN]

DateText(y, m, d) == [k |-> "text", parts |-> << y, m, d >>, v |-> NaN]

PartsText(p) == [k |-> "text", parts |-> p, v |-> NaN]

Num(x) == [k |-> "text", parts |-> << >>, v |-> x]

\* params.get(key, dflt): the default only replaces an absent key
Get(s, dflt) == IF s.k = "absent" THEN dflt ELSE s

\* ---------------------------------------------------------------------
\* Helpers
\* ---------------------------------------------------------------------
parse_date(s, default) ==
    IF s.k \in {"absent", "blank"} THEN default
    ELSE IF s.k = "bad" THEN default
    ELSE IF Len(s.parts) < 3 THEN default
    ELSE IF ~ValidDate(s.parts[1], s.parts[2], s.parts[3]) THEN default
    ELSE Date(s.parts[1], s.parts[2], s.parts[3])

parse_float(s, default) ==
    IF s.k \in {"absent", "blank"} THEN default
    ELSE IF s.k = "bad" THEN default
    ELSE s.v

\* days_inclusive without the "+ 1"
days_inclusive_exclusive(start, end) ==
    IF start = None \/ end = None THEN 0
    ELSE IF DateLt(end, start) THEN 0
    ELSE toordinal(end) - toordinal(start)

\* days_inclusive without the "end < start" test
days_inclusive_signed(start, end) ==
    IF start = None \/ end = None THEN 0
    ELSE (toordinal(end) - toordinal(start)) + 1

days_inclusive(start, end) ==
    IF start = None \/ end = None THEN 0
    ELSE IF DateLt(end, start) THEN 0
    ELSE (toordinal(end) - toordinal(start)) + 1

\* a month count of more bits than this puts the year of add_months beyond
\* a C int, whatever the date
MONTHS_BITS == 40

\* add_months taking every fourth year for a leap year
add_months_every_fourth_year(d, months) ==
    LET total == IAdd(PyInt(d.month - 1), months)
        year == IAdd(PyInt(d.year), IFloorDiv(total, 12))
        m == IMod(total, 12) + 1
    IN  IF BitLen(months.m) > MONTHS_BITS \/ ~FitsCInt(year) THEN Raised("OverflowError")
        ELSE IF BitLen(year.m) > 30 THEN Raised("ValueError")
        ELSE LET y == IntOf(year)
                 last == << 31, IF y % 4 = 0 THEN 29 ELSE 28,
                            31, 30, 31, 30, 31, 31, 30, 31, 30, 31 >>[m]
                 day == IF d.day < last THEN d.day ELSE last
             IN  IF ValidDate(y, m, day) THEN Date(y, m, day) ELSE Raised("ValueError")

\* months is a Python integer.  date(y, m, day) raises OverflowError for a
\* year that does not fit a C int and ValueError for any other year outside
\* MINYEAR..MAXYEAR
add_months(d, months) ==
    LET total == IAdd(PyInt(d.month - 1), months)
        year == IAdd(PyInt(d.year), IFloorDiv(total, 12))
        m == IMod(total, 12) + 1
    IN  IF BitLen(months.m) > MONTHS_BITS \/ ~FitsCInt(year) THEN Raised("OverflowError")
        ELSE IF BitLen(year.m) > 30 THEN Raised("ValueError")
        ELSE LET y == IntOf(year)
                 last == << 31, IF y % 4 = 0 /\ (y % 100 /= 0 \/ y % 400 = 0) THEN 29 ELSE 28,
                            31, 30, 31, 30, 31, 31, 30, 31, 30, 31 >>[m]
                 day == IF d.day < last THEN d.day ELSE last
             IN  IF ValidDate(y, m, day) THEN Date(y, m, day) ELSE Raised("ValueError")

\* riv_component counting from the stream's start even when it lies before
\* the projection start
riv_component_from_stream_start(start_dt, annual_revenue, projection_months, proj_start, proj_end) ==
    IF start_dt = None \/ projection_months <= 0 THEN F(0)
    ELSE IF DateLt(proj_end, start_dt) THEN F(0)
    ELSE LET active_days == days_inclusive(start_dt, proj_end)
         IN  IF active_days <= 0 THEN F(0)
             ELSE FMul(FDiv(annual_revenue, DAYS_PER_YEAR), F(active_days))

\* riv_component testing projection_months < 0 instead of <= 0
riv_component_zero_months_pass(start_dt, annual_revenue, projection_months, proj_start, proj_end) ==
    IF start_dt = None \/ projection_months < 0 THEN F(0)
    ELSE IF DateLt(proj_end, start_dt) THEN F(0)
    ELSE LET active_start == DateMax(start_dt, proj_start)
             active_days == days_inclusive(active_start, proj_end)
         IN  IF active_days <= 0 THEN F(0)
             ELSE FMul(FDiv(annual_revenue, DAYS_PER_YEAR), F(active_days))

\* calculate.riv_component, with the enclosing projection_months,
\* proj_start and proj_end as parameters; the label is left out
riv_component(start_dt, annual_revenue, projection_months, proj_start, proj_end) ==
    IF start_dt = None \/ projection_months <= 0 THEN F(0)
    ELSE IF DateLt(proj_end, start_dt) THEN F(0)
    ELSE LET active_start == DateMax(start_dt, proj_start)
             active_days == days_inclusive(active_start, proj_end)
         IN  IF active_days <= 0 THEN F(0)
             ELSE FMul(FDiv(annual_revenue, DAYS_PER_YEAR), F(active_days))

\* the director's days counted from director_start alone
director_days_from_director_start(director_start, calc_start, join_date) ==
    days_inclusive(director_start, join_date)

\* "Director time from director_start to join_date": the days of the past
\* period the director is paid for
director_days(director_start, calc_start, join_date) ==
    days_inclusive(DateMax(director_start, calc_start), join_date)

\* the past legal fee with "<" for "<="
past_legal_strictly_before(legal_fee, legal_fee_date, join_date) ==
    IF legal_fee_date /= None /\ DateLt(legal_fee_date, join_date)
    THEN legal_fee ELSE F(0)

\* "Legal fee: count in past only if fee date <= join_date"
past_legal_of(legal_fee, legal_fee_date, join_date) ==
    IF legal_fee_date /= None /\ DateLe(legal_fee_date, join_date)
    THEN legal_fee ELSE F(0)

\* "Legal fee: count in projection if fee date in [proj_start, proj_end]"
proj_legal_of(legal_fee, legal_fee_date, proj_start, proj_end) ==
    IF /\ legal_fee_date /= None
       /\ DateLe(proj_start, legal_fee_date)
       /\ DateLe(legal_fee_date, proj_end)
    THEN legal_fee ELSE F(0)

\* ---------------------------------------------------------------------
\* Core calculator.  today is the value date.today() returns when the
\* call runs.  The result carries the returned mapping (inputs, past,
\* projection, riv, summary) flattened, inputs.share_pct under the name
\* inputs_share_pct, and the locals share_pct, per_day_ops,
\* per_day_director, past_period_days and director_days_past.
\* ---------------------------------------------------------------------
calculate(params, today) ==
    LET share_pct == FDiv(parse_float(Get(params.share_pct, Num(F(40))), F(0)), F(100))
        calc_start == parse_date(params.calc_start, Date(2024, 9, 1))
        join_date == parse_date(params.join_date, today)
        projection_start == parse_date(params.projection_start, Date(2026, 1, 1))
        months_float == parse_float(Get(params.projection_months, Num(F(24))), F(24))
    IN
    IF int_raises(months_float) /= "ok" THEN Raised(int_raises(months_float)) ELSE
    LET director_start == parse_date(params.director_start, Date(2025, 1, 1))
        past_cash_total == parse_float(params.past_cash_total, F(0))
        portal_val == parse_float(params.portal_val, F(0))
        finance_val == parse_float(params.finance_val, F(0))
        website_val == parse_float(params.website_val, F(0))
        monthly_ops == parse_float(params.monthly_ops, F(0))
        legal_fee == parse_float(params.legal_fee, F(0))
        legal_fee_date == parse_date(params.legal_fee_date, Date(2026, 1, 1))
        director_salary_year == parse_float(params.director_salary_year, F(56000))
        bootcamp_start == parse_date(params.riv_bootcamp_start, projection_start)
        bootcamp_per_year == parse_float(params.riv_bootcamp_per_year, F(4))
        bootcamp_amount == parse_float(params.riv_bootcamp_amount, F(7000))
        coaching_start == parse_date(params.riv_coaching_start, projection_start)
        coaching_per_year == parse_float(params.riv_coaching_per_year, F(12))
        coaching_amount == parse_float(params.riv_coaching_amount, F(900))
        llm_start == parse_date(params.riv_llm_start, projection_start)
        llm_clients == parse_float(params.riv_llm_clients, F(1))
        llm_monthly == parse_float(params.riv_llm_monthly, F(300))
        \* past period
        past_period_days == days_inclusive(calc_start, join_date)
        per_day_ops == FDiv(FMul(monthly_ops, F(12)), DAYS_PER_YEAR)
        past_ops_cost == FMul(per_day_ops, F(past_period_days))
        director_days_past == director_days(director_start, calc_start, join_date)
        per_day_director == FDiv(director_salary_year, DAYS_PER_YEAR)
        past_director_cost == FMul(per_day_director, F(director_days_past))
        past_legal == past_legal_of(legal_fee, legal_fee_date, join_date)
        assets_total == FAdd(FAdd(portal_val, finance_val), website_val)
        past_total_company ==
            FAdd(FAdd(FAdd(FAdd(past_cash_total, assets_total), past_ops_cost),
                      past_director_cost), past_legal)
        past_total_friend == FMul(past_total_company, share_pct)
        \* projection
        proj_start == projection_start
        proj_end == add_months(proj_start, int(months_float))
    IN
    IF IsRaised(proj_end) THEN proj_end ELSE
    \* proj_end is a date, so projection_months is a small integer
    LET projection_months == IntOf(int(months_float))
        proj_ops_cost == FMul(monthly_ops, F(projection_months))
        proj_director_cost == FMul(director_salary_year, FDiv(F(projection_months), F(12)))
        proj_legal == proj_legal_of(legal_fee, legal_fee_date, proj_start, proj_end)
        proj_total_company == FAdd(FAdd(proj_ops_cost, proj_director_cost), proj_legal)
        proj_total_friend == FMul(proj_total_company, share_pct)
        proj_avg_month_friend == IF projection_months > 0
                                 THEN FDiv(proj_total_friend, F(projection_months))
                                 ELSE F(0)
        \* RIV revenue projection
        bootcamp_revenue == riv_component(bootcamp_start, FMul(bootcamp_per_year, bootcamp_amount),
                                          projection_months, proj_start, proj_end)
        coaching_revenue == riv_component(coaching_start, FMul(coaching_per_year, coaching_amount),
                                          projection_months, proj_start, proj_end)
        llm_revenue == riv_component(llm_start, FMul(FMul(llm_clients, llm_monthly), F(12)),
                                     projection_months, proj_start, proj_end)
        \* sum() starts from the integer 0
        riv_total_company == FAdd(FAdd(FAdd(F(0), bootcamp_revenue), coaching_revenue), llm_revenue)
        riv_total_friend == FMul(riv_total_company, share_pct)
    IN  [ status |-> "ok",
          \* inputs
          inputs_share_pct |-> FMul(share_pct, F(100)),
          calc_start |-> calc_start,
          join_date |-> join_date,
          projection_start |-> proj_start,
          projection_months |-> projection_months,
          director_start |-> director_start,
          past_cash_total |-> past_cash_total,
          portal_val |-> portal_val,
          finance_val |-> finance_val,
          website_val |-> website_val,
          monthly_ops |-> monthly_ops,
          legal_fee |-> legal_fee,
          legal_fee_date |-> legal_fee_date,
          director_salary_year |-> director_salary_year,
          bootcamp_start |-> bootcamp_start,
          bootcamp_per_year |-> bootcamp_per_year,
          bootcamp_amount |-> bootcamp_amount,
          bootcamp_annual |-> FMul(bootcamp_per_year, bootcamp_amount),
          coaching_start |-> coaching_start,
          coaching_per_year |-> coaching_per_year,
          coaching_amount |-> coaching_amount,
          coaching_annual |-> FMul(coaching_per_year, coaching_amount),
          llm_start |-> llm_start,
          llm_clients |-> llm_clients,
          llm_monthly |-> llm_monthly,
          llm_annual |-> FMul(FMul(llm_clients, llm_monthly), F(12)),
          \* locals
          share_pct |-> share_pct,
          per_day_ops |-> per_day_ops,
          per_day_director |-> per_day_director,
          past_period_days |-> past_period_days,
          director_days_past |-> director_days_past,
          \* past
          assets_total |-> assets_total,
          past_ops_cost |-> past_ops_cost,
          past_director_cost |-> past_director_cost,
          past_legal |-> past_legal,
          past_total_company |-> past_total_company,
          past_total_friend |-> past_total_friend,
          \* projection
          proj_ops_cost |-> proj_ops_cost,
          proj_director_cost |-> proj_director_cost,
          proj_legal |-> proj_legal,
          proj_total_company |-> proj_total_company,
          proj_total_friend |-> proj_total_friend,
          proj_avg_month_friend |-> proj_avg_month_friend,
          proj_end |-> proj_end,
          \* riv
          bootcamp_revenue |-> bootcamp_revenue,
          coaching_revenue |-> coaching_revenue,
          llm_revenue |-> llm_revenue,
          riv_total_company |-> riv_total_company,
          riv_total_friend |-> riv_total_friend,
          \* summary
          friend_due_to_join |-> past_total_friend,
          friend_future |-> proj_total_friend,
          friend_total_all |-> FAdd(past_total_friend, proj_total_friend),
          friend_riv_projection |-> riv_total_friend,
          friend_net_after_riv |-> FSub(FAdd(past_total_friend, proj_total_friend), riv_total_friend) ]

\* ---------------------------------------------------------------------
\* Bounds and input sets
\* ---------------------------------------------------------------------
\* days the clock may advance between two calls
MaxTicks == 1

\* calls of calculate made on one input mapping
MaxCalls == 2

\* month counts handed to add_months: -MaxBack .. MaxFwd
MaxBack == 2

MaxFwd == 13

\* the float 1e308
Huge == Float(0, << 2208, 3934, 7393, 921, 1 >>, 971)

\* the float 1e11
ManyMonths == Dyadic(48828125, 11)

\* one input mapping; the fields that are not parameters are the same in
\* every mapping
Params(sp, cs, jd, ps, pm, ds, mo, lf, ld, bs, ca) ==
    [ share_pct |-> sp, calc_start |-> cs, join_date |-> jd, projection_start |-> ps,
      projection_months |-> pm, director_start |-> ds,
      past_cash_total |-> Num(F(4000)), portal_val |-> Num(F(6000)),
      finance_val |-> Bad, website_val |-> Num(Dyadic(4001, -1)),
      monthly_ops |-> mo, legal_fee |-> lf, legal_fee_date |-> ld,
      director_salary_year |-> Absent,
      riv_bootcamp_start |-> bs, riv_bootcamp_per_year |-> Num(F(4)),
      riv_bootcamp_amount |-> Absent,
      riv_coaching_start |-> DateText(2025, 6, 1), riv_coaching_per_year |-> Blank,
      riv_coaching_amount |-> ca,
      riv_llm_start |-> Absent, riv_llm_clients |-> Num(F(5)), riv_llm_monthly |-> Absent ]

CalcStartInputs == { Absent, DateText(2026, 1, 10) }

JoinDateInputs == { Absent, DateText(2024, 9, 1), DateText(2026, 1, 20) }

ProjectionStartInputs == { Absent, DateText(2026, 1, 31) }

MonthsInputs == { Num(F(-3)), Num(F(0)), Num(F(1)), Absent }

DirectorStartInputs == { Absent, DateText(2026, 1, 15) }

LegalFeeDateInputs == { Absent, DateText(2025, 12, 25), DateText(2026, 2, 30) }

BootcampStartInputs == { DateText(2026, 2, 15), PartsText(<< 2025, 6 >>) }

\* mappings of everyday amounts over the orders the dates can be in
DateParams ==
    { Params(Absent, cs, jd, ps, pm, ds, Num(F(500)), Num(F(2500)), ld, bs, Num(F(900))) :
      cs \in CalcStartInputs, jd \in JoinDateInputs, ps \in ProjectionStartInputs,
      pm \in MonthsInputs, ds \in DirectorStartInputs, ld \in LegalFeeDateInputs,
      bs \in BootcampStartInputs }

ShareInputs == { Absent, Blank, Num(F(7)) }

PastEndInputs == { DateText(2024, 9, 1), DateText(2026, 1, 20) }

ExtremeMonthsInputs == { Num(F(0)), Num(F(1)), Num(F(120000)), Num(ManyMonths), Num(Inf) }

MonthlyOpsInputs == { Absent, Num(Huge), Num(Inf) }

LegalFeeInputs == { Absent, Num(F(2500)) }

CoachingAmountInputs == { Num(F(900)), Num(Huge) }

\* mappings of extreme numbers over a forward and a reversed past range
NumberParams ==
    { Params(sp, DateText(2026, 1, 10), jd, Absent, pm, Absent, mo, lf, Absent,
             DateText(2035, 1, 1), ca) :
      sp \in ShareInputs, jd \in PastEndInputs, pm \in ExtremeMonthsInputs,
      mo \in MonthlyOpsInputs, lf \in LegalFeeInputs, ca \in CoachingAmountInputs }

ParamsSet == DateParams \cup NumberParams

\* ---------------------------------------------------------------------
\* State
\* ---------------------------------------------------------------------
VARIABLES
    params,      \* the input mapping handed to calculate
    today,       \* the current date, as date.today() returns it
    results,     \* what the latest call of calculate returned or raised
    first,       \* what the first call on this mapping returned or raised
    firstToday,  \* the date of that first call
    calls,       \* number of calls made
    amD,         \* add_months: the date argument
    amN,         \* add_months: the months argument
    amR,         \* add_months: what it returned or raised
    diStart,     \* days_inclusive: the start argument
    diEnd,       \* days_inclusive: the end argument
    diR          \* days_inclusive: what it returned

calcVars == << params, today, results, first, firstToday, calls >>

dateVars == << amD, amN, amR, diStart, diEnd, diR >>

vars == << calcVars, dateVars >>

NotCalled == -1

NoResult == [status |-> "none"]

\* the day after d
NextDay(d) ==
    IF d.day < MonthLengths(d.year)[d.month] THEN Date(d.year, d.month, d.day + 1)
    ELSE IF d.month < 12 THEN Date(d.year, d.month + 1, 1)
    ELSE Date(d.year + 1, 1, 1)

StartDay == Date(2025, 12, 31)

Init ==
    /\ params \in ParamsSet
    /\ today = StartDay
    /\ results = NoResult
    /\ first = NoResult
    /\ firstToday = None
    /\ calls = 0
    /\ amD = None /\ amN = 0 /\ amR = None
    /\ diStart = None /\ diEnd = None /\ diR = NotCalled

\* one call calculate(params)
Calculate ==
    /\ calls < MaxCalls
    /\ results' = calculate(params, today)
    /\ first' = IF calls = 0 THEN results' ELSE first
    /\ firstToday' = IF calls = 0 THEN today ELSE firstToday
    /\ calls' = calls + 1
    /\ UNCHANGED << params, today, dateVars >>

\* midnight passes
Tick ==
    /\ toordinal(today) - toordinal(StartDay) < MaxTicks
    /\ today' = NextDay(today)
    /\ UNCHANGED << params, results, first, firstToday, calls, dateVars >>

Next == Calculate \/ Tick

Spec == Init /\ [][Next]_vars

Returned == results.status = "ok"

\* ---------------------------------------------------------------------
\* The date helpers on their own: add_months and days_inclusive applied to
\* dates around month ends, leap days and the limits of the calendar, and
\* calculate applied to the same pair of dates as its past period.
\* ---------------------------------------------------------------------
YearSet == { MINYEAR, 1900, 2000, 2024, MAXYEAR }

DateSet ==
    { Date(y, m, d) : y \in YearSet, m \in {1, 2, 12}, d \in {28, 29, 30, 31} }
      \cap { dt \in [year : YearSet, month : 1..12, day : 1..31] :
               ValidDate(dt.year, dt.month, dt.day) }

MonthsSet == (-MaxBack) .. MaxFwd

ClampYear(y) == IF y < MINYEAR THEN MINYEAR ELSE IF y > MAXYEAR THEN MAXYEAR ELSE y

\* a second date some months and years away from d, before or after it
Other(d, n) ==
    Date(ClampYear(d.year + (n \div 5)), ((d.month - 1 + n) % 12) + 1,
         IF d.day < 28 THEN d.day + 2 ELSE 28)

\* the form text of a date, None being an absent field
TextOf(d) == IF d = None THEN Absent ELSE DateText(d.year, d.month, d.day)

\* an everyday monthly cost and one whose yearly amount overflows
OpsSet == { Num(F(500)), Num(Huge) }

PastParams(start, end, ops) ==
    [ share_pct |-> Absent, calc_start |-> TextOf(start), join_date |-> TextOf(end),
      projection_start |-> Absent, projection_months |-> Absent, director_start |-> Absent,
      past_cash_total |-> Absent, portal_val |-> Absent, finance_val |-> Absent,
      website_val |-> Absent, monthly_ops |-> ops, legal_fee |-> Absent,
      legal_fee_date |-> Absent, director_salary_year |-> Absent,
      riv_bootcamp_start |-> Absent, riv_bootcamp_per_year |-> Absent,
      riv_bootcamp_amount |-> Absent, riv_coaching_start |-> Absent,
      riv_coaching_per_year |-> Absent, riv_coaching_amount |-> Absent,
      riv_llm_start |-> Absent, riv_llm_clients |-> Absent, riv_llm_monthly |-> Absent ]

InitDates ==
    /\ amD \in DateSet
    /\ amN \in MonthsSet
    /\ amR = None
    /\ diStart = None /\ diEnd = None /\ diR = NotCalled
    /\ params = PastParams(None, None, Absent)
    /\ today = StartDay
    /\ results = NoResult
    /\ first = NoResult
    /\ firstToday = None
    /\ calls = 0

\* one call add_months(amD, amN)
AddMonths ==
    /\ amR = None
    /\ amR' = add_months(amD, PyInt(amN))
    /\ UNCHANGED << amD, amN, diStart, diEnd, diR, calcVars >>

\* one call days_inclusive(start, end)
DaysInclusive ==
    /\ diR = NotCalled
    /\ \E s \in {None, amD}, e \in {None, amD, Other(amD, amN)} :
         /\ diStart' = s
         /\ diEnd' = e
         /\ diR' = days_inclusive(s, e)
    /\ UNCHANGED << amD, amN, amR, calcVars >>

\* one call of calculate whose past period runs from amD to the other date
PastPeriod ==
    /\ calls = 0
    /\ \E ops \in OpsSet :
         /\ params' = PastParams(amD, Other(amD, amN), ops)
         /\ results' = calculate(params', today)
         /\ first' = results'
    /\ firstToday' = today
    /\ calls' = 1
    /\ UNCHANGED << today, dateVars >>

NextDates == AddMonths \/ DaysInclusive \/ PastPeriod

SpecDates == InitDates /\ [][NextDates]_vars

\* ---------------------------------------------------------------------
\* Properties of calculate
\* ---------------------------------------------------------------------
Zero == F(0)

Positive(x) == FLt(Zero, x)

IsNaN(x) == x.k = "nan"

\* x and y are the same number: equal, or both nan
Same(x, y) == FEq(x, y) \/ (IsNaN(x) /\ IsNaN(y))

Before(a, b) == toordinal(a) < toordinal(b)

NotAfter(a, b) == toordinal(a) <= toordinal(b)

\* C1: a positive legal fee is never counted both in the past total and in
\* the projection total.
C1_LegalFeeCountedAtMostOnce ==
    (Returned /\ Positive(results.legal_fee)) =>
        ~(FEq(results.past_legal, results.legal_fee) /\ FEq(results.proj_legal, results.legal_fee))

\* C2: every call of calculate ends in a returned result, never in an
\* exception.
C2_CalculateNeverRaises ==
    calls > 0 => results.status = "ok"

\* C3: two calls on the same input mapping give the same result, whenever
\* they are made and whatever the mapping leaves absent or unparsable.
C3_SameInputSameResult ==
    calls >= 2 => results = first

\* C9: the past total holds the legal fee exactly when the fee date is not
\* after the join date, the projection total holds it exactly when the fee
\* date lies in [projection start, projection end]; a fee dated strictly
\* between join date and projection start is in neither total and adds
\* nothing to friend_total_all.
C9_LegalFeeDateRangeExact ==
    Returned =>
        LET r == results
            inPast == NotAfter(r.legal_fee_date, r.join_date)
            inProj == /\ NotAfter(r.projection_start, r.legal_fee_date)
                      /\ NotAfter(r.legal_fee_date, r.proj_end)
            inGap == /\ Before(r.join_date, r.legal_fee_date)
                     /\ Before(r.legal_fee_date, r.projection_start)
            pastOther == FAdd(FAdd(FAdd(r.past_cash_total, r.assets_total), r.past_ops_cost),
                              r.past_director_cost)
            projOther == FAdd(r.proj_ops_cost, r.proj_director_cost)
        IN  /\ Same(r.past_legal, IF inPast THEN r.legal_fee ELSE Zero)
            /\ Same(r.proj_legal, IF inProj THEN r.legal_fee ELSE Zero)
            /\ inGap => /\ IsZero(r.past_legal)
                        /\ IsZero(r.proj_legal)
                        /\ Same(r.past_total_company, pastOther)
                        /\ Same(r.proj_total_company, projOther)
                        /\ Same(r.friend_total_all,
                                FAdd(FMul(pastOther, r.share_pct), FMul(projOther, r.share_pct)))

C9_Witness ==
    /\ Returned
    /\ Positive(results.legal_fee)
    /\ Before(results.join_date, results.legal_fee_date)
    /\ Before(results.legal_fee_date, results.projection_start)
    /\ IsZero(results.past_legal) /\ IsZero(results.proj_legal)
    /\ Positive(results.friend_total_all)

\* C10: the director's past days run from the later of director start and
\* calculation start to the join date: they are never more than the days of
\* the past period, are 0 when director start or calculation start is after
\* the join date, and the past director cost is the daily salary times them.
C10_DirectorDaysFromLaterStart ==
    Returned =>
        LET r == results
            from == IF Before(r.director_start, r.calc_start)
                    THEN toordinal(r.calc_start) ELSE toordinal(r.director_start)
        IN  /\ r.director_days_past <= r.past_period_days
            /\ r.director_days_past >= 0
            /\ (Before(r.join_date, r.director_start) \/ Before(r.join_date, r.calc_start))
                 => r.director_days_past = 0
            /\ ~(Before(r.join_date, r.director_start) \/ Before(r.join_date, r.calc_start))
                 => r.director_days_past = toordinal(r.join_date) - from + 1
            /\ Same(r.past_director_cost,
                    FMul(FDiv(r.director_salary_year, DAYS_PER_YEAR), F(r.director_days_past)))

C10_Witness ==
    /\ Returned
    /\ Before(results.director_start, results.calc_start)
    /\ Before(results.calc_start, results.join_date)
    /\ results.director_days_past > 1
    /\ results.director_days_past = results.past_period_days
    /\ Positive(results.past_director_cost)

\* the three revenue streams of the result: start, implied annual revenue,
\* contributed revenue
Streams ==
    { << results.bootcamp_start, results.bootcamp_annual, results.bootcamp_revenue >>,
      << results.coaching_start, results.coaching_annual, results.coaching_revenue >>,
      << results.llm_start, results.llm_annual, results.llm_revenue >> }

\* (annual / 365.25) x the days of the whole projection window
FullWindowAccrual(annual) ==
    FMul(FDiv(annual, DAYS_PER_YEAR),
         F(toordinal(results.proj_end) - toordinal(results.projection_start) + 1))

StreamAccrualRule ==
    \A st \in Streams :
        /\ Before(results.proj_end, st[1]) => IsZero(st[3])
        /\ NotAfter(st[1], results.projection_start) => Same(st[3], FullWindowAccrual(st[2]))

\* C4 as stated: for every projection_months >= 0 a stream that starts after
\* the projection end contributes 0 and a stream that starts on or before
\* the projection start contributes the full-window accrual.
C4_StreamAccrualFromZeroMonths ==
    (Returned /\ results.projection_months >= 0) => StreamAccrualRule

\* C4 amended: the same for every projection_months > 0; with
\* projection_months = 0 every stream contributes 0.
C4_StreamAccrualPositiveMonths ==
    /\ (Returned /\ results.projection_months > 0) => StreamAccrualRule
    /\ (Returned /\ results.projection_months = 0) => \A st \in Streams : IsZero(st[3])

C4_Witness ==
    /\ Returned /\ results.projection_months > 0
    /\ Before(results.proj_end, results.bootcamp_start)
    /\ IsZero(results.bootcamp_revenue)
    /\ Before(results.coaching_start, results.projection_start)
    /\ Positive(results.coaching_revenue)
    /\ results.llm_start = results.projection_start
    /\ Positive(results.llm_revenue)
    /\ FEq(results.llm_revenue, FullWindowAccrual(results.llm_annual))

\* C7 as stated: with projection_months = 0 every projection contribution
\* is 0, and so are the projection company total, the RIV company total and
\* the average per month.
C7_ZeroMonthsAllZero ==
    (Returned /\ results.projection_months = 0) =>
        /\ IsZero(results.proj_ops_cost)
        /\ IsZero(results.proj_director_cost)
        /\ IsZero(results.proj_legal)
        /\ \A st \in Streams : IsZero(st[3])
        /\ IsZero(results.proj_total_company)
        /\ IsZero(results.riv_total_company)
        /\ IsZero(results.proj_avg_month_friend)

\* C7 amended: with projection_months = 0 and finite monthly_ops and
\* director_salary_year, the projected operating and director costs, the
\* three streams, the RIV company total and the average per month are 0;
\* the projection legal fee is legal_fee when the fee date is the projection
\* start and 0 otherwise, and the projection company total equals it.
C7_ZeroMonthsZeroButLegalFee ==
    (/\ Returned /\ results.projection_months = 0
     /\ Finite(results.monthly_ops) /\ Finite(results.director_salary_year)) =>
        /\ IsZero(results.proj_ops_cost)
        /\ IsZero(results.proj_director_cost)
        /\ Same(results.proj_legal, IF results.legal_fee_date = results.projection_start
                                    THEN results.legal_fee ELSE Zero)
        /\ \A st \in Streams : IsZero(st[3])
        /\ Same(results.proj_total_company, results.proj_legal)
        /\ IsZero(results.riv_total_company)
        /\ IsZero(results.proj_avg_month_friend)

C7_Witness ==
    /\ Returned /\ results.projection_months = 0
    /\ Finite(results.monthly_ops) /\ Positive(results.monthly_ops)
    /\ results.legal_fee_date = results.projection_start
    /\ Positive(results.legal_fee)
    /\ FEq(results.proj_total_company, results.legal_fee)
    /\ \A st \in Streams : Positive(st[2]) /\ IsZero(st[3])

NonNegativeInputs ==
    /\ FGe(results.share_pct, Zero)
    /\ results.projection_months >= 0
    /\ \A x \in { results.past_cash_total, results.portal_val, results.finance_val,
                  results.website_val, results.monthly_ops, results.legal_fee,
                  results.director_salary_year,
                  results.bootcamp_per_year, results.bootcamp_amount,
                  results.coaching_per_year, results.coaching_amount,
                  results.llm_clients, results.llm_monthly } : FGe(x, Zero)

\* every labeled component and every total of the three breakdowns, and
\* friend_total_all
MonetaryTotals ==
    { results.past_cash_total, results.assets_total, results.past_ops_cost,
      results.past_director_cost, results.past_legal,
      results.past_total_company, results.past_total_friend,
      results.proj_ops_cost, results.proj_director_cost, results.proj_legal,
      results.proj_total_company, results.proj_total_friend,
      results.bootcamp_revenue, results.coaching_revenue, results.llm_revenue,
      results.riv_total_company, results.riv_total_friend,
      results.friend_total_all }

\* C8 as stated: with no negative input every component and total is >= 0.
C8_TotalsNonNegative ==
    (Returned /\ NonNegativeInputs) => \A x \in MonetaryTotals : FGe(x, Zero)

\* the share and the three company totals are finite numbers
FiniteCompanyTotals ==
    \A x \in { results.share_pct, results.past_total_company,
                results.proj_total_company, results.riv_total_company } : Finite(x)

\* C8 amended: with no negative input no component and no total is negative:
\* each is >= 0 or nan, and is >= 0 when the share and the three company
\* totals are finite.
C8_TotalsNeverNegative ==
    (Returned /\ NonNegativeInputs) =>
        /\ \A x \in MonetaryTotals : FGe(x, Zero) \/ IsNaN(x)
        /\ FiniteCompanyTotals => \A x \in MonetaryTotals : FGe(x, Zero)

C8_Witness ==
    /\ Returned /\ NonNegativeInputs /\ FiniteCompanyTotals
    /\ results.projection_months > 0
    /\ Finite(results.monthly_ops) /\ Positive(results.monthly_ops)
    /\ Before(results.join_date, results.calc_start)
    /\ IsZero(results.past_ops_cost)
    /\ Positive(results.proj_ops_cost)
    /\ Positive(results.riv_total_friend)
    /\ Positive(results.friend_total_all)

\* ---------------------------------------------------------------------
\* Properties of the date helpers
\* ---------------------------------------------------------------------
\* months since year 0 of the month a date lies in
MonthIndex(d) == d.year * 12 + (d.month - 1)

IsDate(x) == "year" \in DOMAIN x /\ x /= None

Called == IsDate(amR) \/ IsRaised(amR)

TargetYear == (MonthIndex(amD) + amN) \div 12

\* C5: when the target year is representable add_months(d, n) is the date
\* in the month n months after d's month whose day is the smaller of d's
\* day and the length of that month; add_months(d, 12) is the same day one
\* year later when that day exists.
C5_AddMonthsClampsToTargetMonth ==
    (Called /\ TargetYear >= MINYEAR /\ TargetYear <= MAXYEAR) =>
        /\ IsDate(amR)
        /\ MonthIndex(amR) = MonthIndex(amD) + amN
        /\ ValidDate(amR.year, amR.month, amR.day)
        /\ amR.day <= amD.day
        /\ amR.day < amD.day => ~ValidDate(amR.year, amR.month, amR.day + 1)
        /\ (amN = 12 /\ ValidDate(amD.year + 1, amD.month, amD.day))
              => amR = Date(amD.year + 1, amD.month, amD.day)

C5_Witness ==
    /\ amD = Date(2024, 1, 31) /\ amN = 1 /\ amR = Date(2024, 2, 29)

\* what C6 says of days_inclusive alone
DaysInclusiveRule ==
    diR /= NotCalled =>
        /\ diR >= 0
        /\ (diStart = None \/ diEnd = None) => diR = 0
        /\ (diStart /= None /\ diEnd /= None /\ Before(diEnd, diStart)) => diR = 0
        /\ (diStart /= None /\ diEnd /= None /\ ~Before(diEnd, diStart))
              => diR = toordinal(diEnd) - toordinal(diStart) + 1
        /\ (diStart /= None /\ diEnd = diStart) => diR = 1

ReversedPast == Returned /\ Before(results.join_date, results.calc_start)

\* C6 as stated: days_inclusive is 0 for a missing date or a reversed
\* range and (end - start) + 1 otherwise, so it is never negative and is 1
\* for a single day; a reversed past range gives past_period_days = 0 and a
\* past operating cost of 0.
C6_DaysInclusiveAndReversedPast ==
    /\ DaysInclusiveRule
    /\ ReversedPast => (results.past_period_days = 0 /\ IsZero(results.past_ops_cost))

\* C6 amended: the same, the past operating cost of a reversed past range
\* being 0 when the daily operating cost monthly_ops * 12 / 365.25 is a
\* finite number and nan when it is not.
C6_DaysInclusiveAndReversedPastFinite ==
    /\ DaysInclusiveRule
    /\ ReversedPast =>
          /\ results.past_period_days = 0
          /\ IF Finite(results.per_day_ops) THEN IsZero(results.past_ops_cost)
             ELSE IsNaN(results.past_ops_cost)

C6_Witness ==
    /\ diR = 0 /\ diStart /= None /\ diEnd /= None /\ Before(diEnd, diStart)
    /\ ReversedPast /\ Positive(results.per_day_ops) /\ Finite(results.per_day_ops)
    /\ IsZero(results.past_ops_cost)

====
